---- MODULE Spec2Model ----
(***************************************************************************)
(* Pessimistic proof: the per-network ledger map (BalanceTreeByNetwork),   *)
(* the application of one batch (get_network_aggregate) and the proof      *)
(* engine (generate_full_proof) of pessimistic_proof/src/proof.rs, with    *)
(* the withdrawal leaf of invariant_proof/src/withdrawal.rs.               *)
(*                                                                         *)
(* BalanceTree, Batch, LocalExitTree and keccak are defined in other files *)
(* of the crate; they follow sections 3, 4.2 and 6 of the specification.   *)
(***************************************************************************)
EXTENDS Integers, Sequences, FiniteSets, TLC

VARIABLES
    batches,              \* the caller's slice &[Batch]
    pc,                   \* position inside generate_full_proof
    i,                    \* index of the batch of generate_network_balance_trees' loop
    j,                    \* index of the withdrawal of get_network_aggregate's loop
    new_local_exit_tree,  \* get_network_aggregate: local
    aggregate,            \* get_network_aggregate: local
    aggregates,           \* generate_network_balance_trees: HashMap
    pending,              \* merge_balance_trees: keys of aggregates.values() not yet visited
    collated,             \* merge_balance_trees: local
    result,               \* what generate_full_proof returned
    ledger,               \* a BalanceTreeByNetwork that insert is called on
    last,                 \* the arguments of the last call of insert on ledger
    calls,                \* the number of calls of insert on ledger
    merge_args,           \* the maps BalanceTreeByNetwork::merge is called on
    merge_ret,            \* the maps the calls of merge left
    hash_args,            \* the withdrawals Withdrawal::hash is called on
    hash_ret              \* the digests the calls of hash returned

proof_vars == <<batches, pc, i, j, new_local_exit_tree, aggregate, aggregates,
                pending, collated, result>>

insert_vars == <<ledger, last, calls>>

call_vars == <<merge_args, merge_ret, hash_args, hash_ret>>

vars == <<proof_vars, insert_vars, call_vars>>

(***************************************************************************)
(* Bounds of the model.                                                    *)
(***************************************************************************)
\* Largest input of one call of generate_full_proof: its batches and their
\* withdrawals, counted together.
MaxInput == 4
\* Longest sequence of calls of BalanceTreeByNetwork::insert on one map.
MaxInserts == 3
\* Largest value of the unsigned integer type of the amounts (U256 in the
\* source, 2^256 - 1), scaled down so that sums can exceed it.
U256_MAX == 15

\* NetworkId is a u32; the model uses two ids.
NetworkIds == {0, 1}

(***************************************************************************)
(* Bytes, digests and the withdrawal leaf (withdrawal.rs).                 *)
(***************************************************************************)
RECURSIVE Pow256(_)
Pow256(k) == IF k = 0 THEN 1 ELSE 256 * Pow256(k - 1)

\* to_be_bytes of an unsigned integer on n bytes; the model's values are
\* below 2^31, so every byte above the low four is zero.
to_be_bytes(v, n) ==
    [k \in 1..n |-> IF n - k >= 4 THEN 0 ELSE (v \div Pow256(n - k)) % 256]

\* An Address is a 20-byte array; the model's addresses are the arrays whose
\* big-endian value is a small number a.
as_slice(a) == to_be_bytes(a, 20)

RECURSIVE Concat(_)
Concat(slices) ==
    IF slices = <<>> THEN <<>> ELSE Head(slices) \o Concat(Tail(slices))

\* keccak256: an opaque injective digest of the bytes hashed.
keccak256(bytes) == [kind |-> "keccak", pre |-> bytes]

\* keccak256_combine: the digest of the concatenation of the slices.
keccak256_combine(slices) == keccak256(Concat(slices))

\* The 32 bytes of a digest of at most 32 bytes, as symbols above the byte
\* range: 256 + b for each byte hashed, 512 for the positions after them.
DigestBytes(d) ==
    [k \in 1..32 |-> IF k <= Len(d.pre) THEN 256 + d.pre[k] ELSE 512]

\* Digest::default(): the all-zero digest.
DigestDefault == [kind |-> "zero", pre |-> <<>>]

RECURSIVE WithoutLeadingZeros(_)
WithoutLeadingZeros(bytes) ==
    IF bytes # <<>> /\ Head(bytes) = 0 THEN WithoutLeadingZeros(Tail(bytes)) ELSE bytes

\* The variant of amount_as_bytes that writes the amount on as many bytes as
\* it takes, without the padding to 32 bytes.
amount_as_bytes_unpadded(w) == WithoutLeadingZeros(to_be_bytes(w.amount, 32))

\* Withdrawal::amount_as_bytes
amount_as_bytes(w) ==
    LET amount_bytes == to_be_bytes(w.amount, 32)
        padding_length == 32 - Len(amount_bytes)
    IN  [k \in 1..padding_length |-> 0] \o amount_bytes

\* Withdrawal::hash
WithdrawalHash(w) ==
    keccak256_combine(<<
        <<w.leaf_type>>,
        to_be_bytes(w.token_info.origin_network, 4),
        as_slice(w.token_info.origin_token_address),
        to_be_bytes(w.dest_network, 4),
        as_slice(w.dest_address),
        amount_as_bytes(w),
        DigestBytes(keccak256(w.metadata)) >>)

\* Withdrawal::new
NewWithdrawal(leaf_type, origin_network, origin_token_address, dest_network, dest_address, amount, metadata) ==
    [leaf_type |-> leaf_type,
     token_info |-> [origin_network |-> origin_network,
                     origin_token_address |-> origin_token_address],
     dest_network |-> dest_network,
     dest_address |-> dest_address,
     amount |-> amount,
     metadata |-> metadata]

(***************************************************************************)
(* LocalExitTree: consumed through new, add_leaf and get_root only.        *)
(***************************************************************************)
LocalExitTreeNew == <<>>

add_leaf(tree, leaf) == Append(tree, leaf)

\* The root commits to the leaves appended, in order.
get_root(tree) == [kind |-> "root", pre |-> tree]

(***************************************************************************)
(* BalanceTree: TokenInfo -> (deposit, withdraw), checked 256-bit sums.    *)
(***************************************************************************)
\* BalanceTree::default(): no token.
BalanceTreeDefault == [token \in {} |-> 0]

BalanceDefault == [deposit |-> 0, withdraw |-> 0]

\* A checked addition: the sum, or an arithmetic overflow.
checked_add(a, b) ==
    IF a + b > U256_MAX THEN [ok |-> FALSE, value |-> a]
    ELSE [ok |-> TRUE, value |-> a + b]

BalanceOf(bt, token) == IF token \in DOMAIN bt THEN bt[token] ELSE BalanceDefault

\* BalanceTree::deposit: the tree after the call and whether it failed.
BalanceTreeDeposit(bt, token, amount) ==
    LET old == BalanceOf(bt, token)
        sum == checked_add(old.deposit, amount)
    IN  [tree |-> (token :> [old EXCEPT !.deposit = sum.value]) @@ bt,
         overflow |-> ~sum.ok]

\* BalanceTree::withdraw: the tree after the call and whether it failed.
BalanceTreeWithdraw(bt, token, amount) ==
    LET old == BalanceOf(bt, token)
        sum == checked_add(old.withdraw, amount)
    IN  [tree |-> (token :> [old EXCEPT !.withdraw = sum.value]) @@ bt,
         overflow |-> ~sum.ok]

\* BalanceTree::has_debt
has_debt(bt) == \E token \in DOMAIN bt : bt[token].withdraw > bt[token].deposit

\* The order of TokenInfo (origin_network, then origin_token_address).
TokenLess(a, b) ==
    \/ a.origin_network < b.origin_network
    \/ /\ a.origin_network = b.origin_network
       /\ a.origin_token_address < b.origin_token_address

RECURSIVE SortedTokens(_)
SortedTokens(S) ==
    IF S = {} THEN <<>>
    ELSE LET least == CHOOSE t \in S : \A u \in S \ {t} : TokenLess(t, u)
         IN  <<least>> \o SortedTokens(S \ {least})

\* TokenInfo::hash
TokenInfoHash(token) ==
    keccak256_combine(<<to_be_bytes(token.origin_network, 4),
                        as_slice(token.origin_token_address)>>)

\* BalanceTree::hash: the digest of the (token hash, deposited, withdrawn)
\* triples in the canonical order of the tokens.
BalanceTreeHash(bt) ==
    LET tokens == SortedTokens(DOMAIN bt)
    IN  [kind |-> "balance",
         pre |-> [k \in 1..Len(tokens) |->
                    <<TokenInfoHash(tokens[k]), bt[tokens[k]].deposit,
                      bt[tokens[k]].withdraw>>]]

\* BalanceTree::merge: the point-wise sums over the union of the tokens, and
\* whether a sum left the range (merge returns nothing, so it cannot report it).
BalanceTreeMerge(bt, other) ==
    LET tokens == DOMAIN bt \cup DOMAIN other
        dep(t) == checked_add(BalanceOf(bt, t).deposit, BalanceOf(other, t).deposit)
        wd(t) == checked_add(BalanceOf(bt, t).withdraw, BalanceOf(other, t).withdraw)
    IN  [tree |-> [t \in tokens |-> [deposit |-> dep(t).value, withdraw |-> wd(t).value]],
         overflow |-> \E t \in tokens : ~dep(t).ok \/ ~wd(t).ok]

(***************************************************************************)
(* BalanceTreeByNetwork: NetworkId -> BalanceTree (proof.rs).              *)
(***************************************************************************)
\* BalanceTreeByNetwork::new
BalanceTreeByNetworkNew == [network \in {} |-> BalanceTreeDefault]

\* self.0.entry(network).or_default()
or_default(self, network) ==
    IF network \in DOMAIN self THEN self ELSE (network :> BalanceTreeDefault) @@ self

\* The variant of insert without its second half: the withdrawal is counted
\* in the origin network and nothing is deposited.
insert_origin_only(self, origin_network, withdrawal) ==
    LET s0 == or_default(self, origin_network)
    IN  [s0 EXCEPT ![origin_network] =
            BalanceTreeWithdraw(@, withdrawal.token_info, withdrawal.amount).tree]

\* The variant of insert with the two ledgers exchanged: the deposit lands in
\* the origin network and the withdrawal in the destination network.
insert_swapped(self, origin_network, withdrawal) ==
    LET s0 == or_default(self, withdrawal.dest_network)
        s1 == [s0 EXCEPT ![withdrawal.dest_network] =
                  BalanceTreeWithdraw(@, withdrawal.token_info, withdrawal.amount).tree]
        s2 == or_default(s1, origin_network)
    IN  [s2 EXCEPT ![origin_network] =
            BalanceTreeDeposit(@, withdrawal.token_info, withdrawal.amount).tree]

\* BalanceTreeByNetwork::insert. The values the two ledger calls return are
\* dropped: insert returns nothing.
insert(self, origin_network, withdrawal) ==
    LET s0 == or_default(self, origin_network)
        s1 == [s0 EXCEPT ![origin_network] =
                  BalanceTreeWithdraw(@, withdrawal.token_info, withdrawal.amount).tree]
        s2 == or_default(s1, withdrawal.dest_network)
    IN  [s2 EXCEPT ![withdrawal.dest_network] =
            BalanceTreeDeposit(@, withdrawal.token_info, withdrawal.amount).tree]

\* The variant of merge that stores the ledger of other over the ledger of
\* self (BTreeMap::insert in the place of entry().and_modify()).
merge_overwrite(self, other) ==
    [tree |-> other @@ self, overflow |-> FALSE]

\* The variant of merge that leaves a ledger of self as it is
\* (entry().or_insert() without the and_modify()).
merge_keep_self(self, other) ==
    [tree |-> self @@ other, overflow |-> FALSE]

\* BalanceTreeByNetwork::merge: the map after the call, and whether one of the
\* ledger merges left the range.
merge(self, other) ==
    LET both == DOMAIN self \cap DOMAIN other
    IN  [tree |-> [network \in DOMAIN self \cup DOMAIN other |->
                     IF network \in both
                     THEN BalanceTreeMerge(self[network], other[network]).tree
                     ELSE IF network \in DOMAIN self THEN self[network]
                     ELSE other[network]],
         overflow |-> \E network \in both :
                         BalanceTreeMerge(self[network], other[network]).overflow]

(***************************************************************************)
(* The inputs: batches drawn from bounded sets.                            *)
(***************************************************************************)
Token0 == [origin_network |-> 0, origin_token_address |-> 1]

Token1 == [origin_network |-> 1, origin_token_address |-> 1]

TokenInfos == {Token0, Token1}

\* 5 + 10 reaches U256_MAX or stays below it, 10 + 10 exceeds it.
Amounts == {5, 10}

Withdrawals ==
    {NewWithdrawal(0, Token0.origin_network, Token0.origin_token_address,
                   dest, 2, amount, <<>>) : dest \in NetworkIds, amount \in Amounts}
    \cup {NewWithdrawal(0, Token1.origin_network, Token1.origin_token_address,
                        0, 2, 5, <<>>)}

\* A leaf a network emitted before the call.
PriorLeaf == WithdrawalHash(NewWithdrawal(0, 0, 1, 0, 2, 1, <<>>))

\* What a network brings to the call: nothing, or one leaf and a ledger with
\* 10 of Token0 deposited.
PriorStates ==
    {[tree |-> LocalExitTreeNew, balance |-> BalanceTreeDefault],
     [tree |-> add_leaf(LocalExitTreeNew, PriorLeaf),
      balance |-> (Token0 :> [deposit |-> 10, withdraw |-> 0])]}

\* What a batch holds besides its withdrawals; the declared root is the root
\* of the batch's tree or the root of another tree.
BatchHeads ==
    [origin_network : NetworkIds, prior : PriorStates, declared : PriorStates]

RECURSIVE Shapes(_)
\* The numbers of withdrawals of the batches of a list of at most n batches
\* and withdrawals together.
Shapes(n) ==
    {<<>>} \cup
    UNION {{<<count>> \o rest : rest \in Shapes(n - count - 1)} : count \in 0..(n - 1)}

RECURSIVE SumTo(_, _)
SumTo(shape, k) == IF k = 0 THEN 0 ELSE shape[k] + SumTo(shape, k - 1)

\* The list of batches of the given shape, heads and withdrawals.
BatchList(shape, heads, withdrawals) ==
    [k \in 1..Len(shape) |->
        [origin_network |-> heads[k].origin_network,
         prev_local_exit_tree |-> heads[k].prior.tree,
         prev_local_exit_root |-> get_root(heads[k].declared.tree),
         prev_local_balance_tree |-> heads[k].prior.balance,
         withdrawals |-> SubSeq(withdrawals, SumTo(shape, k - 1) + 1, SumTo(shape, k))]]

(***************************************************************************)
(* Results and errors (ProofError, proof.rs lines 79-82).                  *)
(***************************************************************************)
NoError ==
    [type |-> "none", got |-> DigestDefault, expected |-> DigestDefault,
     debtors |-> <<>>]

InvalidLocalExitRoot(got, expected) ==
    [type |-> "InvalidLocalExitRoot", got |-> got, expected |-> expected,
     debtors |-> <<>>]

NotEnoughBalance(debtors) ==
    [type |-> "NotEnoughBalance", got |-> DigestDefault,
     expected |-> DigestDefault, debtors |-> debtors]

\* No (NetworkId -> roots) map, and the empty HashMap of aggregates.
NoRoots == [network \in {} |-> DigestDefault]

NoAggregates == [network \in {} |-> DigestDefault]

\* The values of Result<HashMap<NetworkId, (ExitRoot, BalanceRoot)>, ProofError>,
\* "none" before the call returns and "panic" when it never does.
NoResult == [kind |-> "none", roots |-> NoRoots, error |-> NoError]

Panicked == [kind |-> "panic", roots |-> NoRoots, error |-> NoError]

Ok(roots) == [kind |-> "Ok", roots |-> roots, error |-> NoError]

Err(error) == [kind |-> "Err", roots |-> NoRoots, error |-> error]

(***************************************************************************)
(* get_network_aggregate (proof.rs lines 86-112).                          *)
(***************************************************************************)
\* Lines 88-90: the root of the batch's tree against the declared root.
computed_root(batch) == get_root(batch.prev_local_exit_tree)

root_mismatch(batch) == computed_root(batch) # batch.prev_local_exit_root

\* The variant of the locals that starts the aggregate from an empty ledger
\* instead of the clone of prev_local_balance_tree.
aggregate_base_fresh(batch) ==
    [tree |-> batch.prev_local_exit_tree,
     aggregate |-> (batch.origin_network :> BalanceTreeDefault)]

\* Lines 98-104: the locals before the loop.
aggregate_base(batch) ==
    [tree |-> batch.prev_local_exit_tree,
     aggregate |-> (batch.origin_network :> batch.prev_local_balance_tree)]

\* Lines 107-108: one turn of the loop.
apply_withdrawal(locals, origin_network, withdrawal) ==
    [tree |-> add_leaf(locals.tree, WithdrawalHash(withdrawal)),
     aggregate |-> insert(locals.aggregate, origin_network, withdrawal)]

RECURSIVE apply_withdrawals(_, _, _)
\* Lines 106-109: the loop.
apply_withdrawals(locals, origin_network, withdrawals) ==
    IF withdrawals = <<>> THEN locals
    ELSE apply_withdrawals(apply_withdrawal(locals, origin_network, Head(withdrawals)),
                           origin_network, Tail(withdrawals))

\* The function as a whole: Err(InvalidLocalExitRoot) or Ok((root, aggregate)).
get_network_aggregate(batch) ==
    IF root_mismatch(batch)
    THEN [kind |-> "Err",
          error |-> InvalidLocalExitRoot(computed_root(batch), batch.prev_local_exit_root),
          exit_root |-> DigestDefault,
          aggregate |-> BalanceTreeByNetworkNew]
    ELSE LET locals == apply_withdrawals(aggregate_base(batch), batch.origin_network,
                                         batch.withdrawals)
         IN  [kind |-> "Ok",
              error |-> NoError,
              exit_root |-> get_root(locals.tree),
              aggregate |-> locals.aggregate]

(***************************************************************************)
(* generate_network_balance_trees, merge_balance_trees and                 *)
(* generate_full_proof as functions of their arguments.                    *)
(***************************************************************************)
\* Line 122: HashMap::insert replaces the value stored under the key.
hashmap_insert(map, key, value) == (key :> value) @@ map

RECURSIVE balance_trees_from(_, _, _)
\* generate_network_balance_trees, lines 120-125, from the k-th batch on.
balance_trees_from(bs, k, aggs) ==
    IF k > Len(bs) THEN [kind |-> "Ok", error |-> NoError, aggregates |-> aggs]
    ELSE LET got == get_network_aggregate(bs[k])
         IN  IF got.kind = "Err"
             THEN [kind |-> "Err", error |-> got.error, aggregates |-> NoAggregates]
             ELSE balance_trees_from(bs, k + 1,
                     hashmap_insert(aggs, bs[k].origin_network,
                         [exit_root |-> got.exit_root, aggregate |-> got.aggregate]))

generate_network_balance_trees(bs) == balance_trees_from(bs, 1, NoAggregates)

RECURSIVE merge_in_order(_, _, _)
\* merge_balance_trees, lines 134-136, visiting the keys in the given order.
merge_in_order(aggs, order, acc) ==
    IF order = <<>> \/ acc.overflow THEN acc
    ELSE LET merged == merge(acc.tree, aggs[Head(order)].aggregate)
         IN  merge_in_order(aggs, Tail(order),
                [tree |-> IF merged.overflow THEN acc.tree ELSE merged.tree,
                 overflow |-> merged.overflow])

RECURSIVE Ascending(_)
\* The keys of a BTreeMap in the order iter() yields them.
Ascending(S) ==
    IF S = {} THEN <<>>
    ELSE LET least == CHOOSE n \in S : \A m \in S : n <= m
         IN  <<least>> \o Ascending(S \ {least})

merge_balance_trees(aggs, order) ==
    merge_in_order(aggs, order, [tree |-> BalanceTreeByNetworkNew, overflow |-> FALSE])

\* The variant of debtors_of over a map that does not keep its keys in order
\* (a HashMap may yield them from the last to the first).
debtors_of_unordered(tree) ==
    LET keys == Ascending(DOMAIN tree)
        reversed == [k \in 1..Len(keys) |-> keys[Len(keys) + 1 - k]]
    IN  SelectSeq(reversed, LAMBDA network : has_debt(tree[network]))

RECURSIVE PooledTotal(_, _, _, _)
\* The sum of a total of a token over the ledgers of the given networks.
PooledTotal(tree, networks, token, side) ==
    IF networks = {} THEN 0
    ELSE LET network == CHOOSE n \in networks : TRUE
         IN  (IF token \in DOMAIN tree[network] THEN tree[network][token][side] ELSE 0)
             + PooledTotal(tree, networks \ {network}, token, side)

\* The variant of debtors_of that tests each network against the totals
\* pooled over all the networks.
debtors_of_pooled(tree) ==
    SelectSeq(Ascending(DOMAIN tree),
              LAMBDA network :
                  \E token \in DOMAIN tree[network] :
                      PooledTotal(tree, DOMAIN tree, token, "withdraw") >
                      PooledTotal(tree, DOMAIN tree, token, "deposit"))

\* generate_full_proof, lines 152-156.
debtors_of(tree) ==
    SelectSeq(Ascending(DOMAIN tree), LAMBDA network : has_debt(tree[network]))

\* generate_full_proof, lines 162-169.
new_roots_of(aggs, tree) ==
    [network \in DOMAIN tree |->
        [exit_root |-> IF network \in DOMAIN aggs THEN aggs[network].exit_root
                       ELSE DigestDefault,
         balance_root |-> BalanceTreeHash(tree[network])]]

\* The variant of proof_of without the test of line 158.
proof_of_unchecked(aggs, tree) == Ok(new_roots_of(aggs, tree))

\* The variant of proof_of that hands the roots of the solvent networks back
\* with the error.
proof_of_partial(aggs, tree) ==
    LET debtors == debtors_of(tree)
        solvent == {network \in DOMAIN tree : ~has_debt(tree[network])}
    IN  IF debtors # <<>>
        THEN [kind |-> "Err",
              roots |-> [network \in solvent |-> new_roots_of(aggs, tree)[network]],
              error |-> NotEnoughBalance(debtors)]
        ELSE Ok(new_roots_of(aggs, tree))

\* generate_full_proof, lines 151-171: the value returned.
proof_of(aggs, tree) ==
    LET debtors == debtors_of(tree)
    IN  IF debtors # <<>> THEN Err(NotEnoughBalance(debtors))
        ELSE Ok(new_roots_of(aggs, tree))

\* generate_full_proof on a list of batches, the aggregates merged in
\* ascending order of their keys.
generate_full_proof(bs) ==
    LET trees == generate_network_balance_trees(bs)
    IN  IF trees.kind = "Err" THEN Err(trees.error)
        ELSE LET merged == merge_balance_trees(trees.aggregates,
                                               Ascending(DOMAIN trees.aggregates))
             IN  IF merged.overflow THEN Panicked
                 ELSE proof_of(trees.aggregates, merged.tree)

(***************************************************************************)
(* One call of generate_full_proof, one action per step of its code.       *)
(***************************************************************************)
NoCall == [origin_network |-> 0, withdrawal |-> NewWithdrawal(0, 0, 0, 0, 0, 0, <<>>)]

InitInsert ==
    /\ ledger = BalanceTreeByNetworkNew
    /\ last = NoCall
    /\ calls = 0

\* No call of merge or of hash on its own.
InitCalls ==
    /\ merge_args = <<>>
    /\ merge_ret = <<>>
    /\ hash_args = <<>>
    /\ hash_ret = <<>>

InitProof ==
    /\ pc = "batch"
    /\ i = 1
    /\ j = 1
    /\ new_local_exit_tree = LocalExitTreeNew
    /\ aggregate = BalanceTreeByNetworkNew
    /\ aggregates = NoAggregates
    /\ pending = {}
    /\ collated = BalanceTreeByNetworkNew
    /\ result = NoResult

Init ==
    /\ \E shape \in Shapes(MaxInput) :
       \E heads \in [1..Len(shape) -> BatchHeads] :
       \E withdrawals \in [1..SumTo(shape, Len(shape)) -> Withdrawals] :
          batches = BatchList(shape, heads, withdrawals)
    /\ InitProof
    /\ InitInsert
    /\ InitCalls

\* The variant of the root check that lets every batch through.
get_network_aggregate_validate_unchecked ==
    /\ pc = "batch"
    /\ i <= Len(batches)
    /\ new_local_exit_tree' = aggregate_base(batches[i]).tree
    /\ aggregate' = aggregate_base(batches[i]).aggregate
    /\ j' = 1
    /\ pc' = "withdrawals"
    /\ UNCHANGED <<batches, i, aggregates, pending, collated, result, insert_vars, call_vars>>

\* The variant of the root check whose error does not end the loop over the
\* batches (a result kept aside instead of returned with ?).
get_network_aggregate_validate_deferred ==
    /\ pc = "batch"
    /\ i <= Len(batches)
    /\ IF root_mismatch(batches[i])
       THEN /\ result' = Err(InvalidLocalExitRoot(computed_root(batches[i]),
                                                  batches[i].prev_local_exit_root))
            /\ i' = i + 1
            /\ UNCHANGED <<pc, j, new_local_exit_tree, aggregate>>
       ELSE /\ new_local_exit_tree' = aggregate_base(batches[i]).tree
            /\ aggregate' = aggregate_base(batches[i]).aggregate
            /\ j' = 1
            /\ pc' = "withdrawals"
            /\ UNCHANGED <<i, result>>
    /\ UNCHANGED <<batches, aggregates, pending, collated, insert_vars, call_vars>>

\* get_network_aggregate, lines 87-104: the root check, then the locals.
get_network_aggregate_validate ==
    /\ pc = "batch"
    /\ i <= Len(batches)
    /\ IF root_mismatch(batches[i])
       THEN /\ result' = Err(InvalidLocalExitRoot(computed_root(batches[i]),
                                                  batches[i].prev_local_exit_root))
            /\ pc' = "done"
            /\ UNCHANGED <<j, new_local_exit_tree, aggregate>>
       ELSE /\ new_local_exit_tree' = aggregate_base(batches[i]).tree
            /\ aggregate' = aggregate_base(batches[i]).aggregate
            /\ j' = 1
            /\ pc' = "withdrawals"
            /\ UNCHANGED result
    /\ UNCHANGED <<batches, i, aggregates, pending, collated, insert_vars, call_vars>>

\* get_network_aggregate, lines 106-109: one turn of the loop.
get_network_aggregate_withdrawal ==
    /\ pc = "withdrawals"
    /\ j <= Len(batches[i].withdrawals)
    /\ LET locals == apply_withdrawal(
                        [tree |-> new_local_exit_tree, aggregate |-> aggregate],
                        batches[i].origin_network, batches[i].withdrawals[j])
       IN  /\ new_local_exit_tree' = locals.tree
           /\ aggregate' = locals.aggregate
    /\ j' = j + 1
    /\ UNCHANGED <<batches, pc, i, aggregates, pending, collated, result, insert_vars, call_vars>>

\* get_network_aggregate, line 111, and generate_network_balance_trees,
\* lines 121-122: the pair returned is stored under the origin network.
get_network_aggregate_return ==
    /\ pc = "withdrawals"
    /\ j > Len(batches[i].withdrawals)
    /\ aggregates' =
          hashmap_insert(aggregates, batches[i].origin_network,
              [exit_root |-> get_root(new_local_exit_tree), aggregate |-> aggregate])
    /\ i' = i + 1
    /\ j' = 1
    /\ new_local_exit_tree' = LocalExitTreeNew
    /\ aggregate' = BalanceTreeByNetworkNew
    /\ pc' = "batch"
    /\ UNCHANGED <<batches, pending, collated, result, insert_vars, call_vars>>

\* generate_network_balance_trees, line 125, and merge_balance_trees, line 132.
generate_network_balance_trees_return ==
    /\ pc = "batch"
    /\ i > Len(batches)
    /\ pc' = "merge"
    /\ pending' = DOMAIN aggregates
    /\ collated' = BalanceTreeByNetworkNew
    /\ UNCHANGED <<batches, i, j, new_local_exit_tree, aggregate, aggregates, result,
                   insert_vars, call_vars>>

\* merge_balance_trees, lines 134-136: aggregates.values() yields the entries
\* of a HashMap in an order the code does not control. A sum that leaves the
\* range has no error to return through: the call ends there.
merge_balance_trees_step ==
    /\ pc = "merge"
    /\ \E network \in pending :
          LET merged == merge(collated, aggregates[network].aggregate)
          IN  /\ pending' = pending \ {network}
              /\ IF merged.overflow
                 THEN pc' = "panic" /\ result' = Panicked /\ UNCHANGED collated
                 ELSE pc' = pc /\ collated' = merged.tree /\ UNCHANGED result
    /\ UNCHANGED <<batches, i, j, new_local_exit_tree, aggregate, aggregates, insert_vars, call_vars>>

\* generate_full_proof, lines 151-171.
generate_full_proof_return ==
    /\ pc = "merge"
    /\ pending = {}
    /\ result' = proof_of(aggregates, collated)
    /\ pc' = "done"
    /\ UNCHANGED <<batches, i, j, new_local_exit_tree, aggregate, aggregates,
                   pending, collated, insert_vars, call_vars>>

Next ==
    \/ get_network_aggregate_validate
    \/ get_network_aggregate_withdrawal
    \/ get_network_aggregate_return
    \/ generate_network_balance_trees_return
    \/ merge_balance_trees_step
    \/ generate_full_proof_return

Spec == Init /\ [][Next]_vars

(***************************************************************************)
(* One call of get_network_aggregate, on a batch of up to MaxInput - 1     *)
(* withdrawals.                                                            *)
(***************************************************************************)
InitAggregate ==
    /\ \E count \in 0..(MaxInput - 1) :
       \E heads \in [1..1 -> BatchHeads] :
       \E withdrawals \in [1..count -> Withdrawals] :
          batches = BatchList(<<count>>, heads, withdrawals)
    /\ InitProof
    /\ InitInsert
    /\ InitCalls

NextAggregate ==
    \/ get_network_aggregate_validate
    \/ get_network_aggregate_withdrawal
    \/ get_network_aggregate_return

SpecAggregate == InitAggregate /\ [][NextAggregate]_vars

(***************************************************************************)
(* Calls of BalanceTreeByNetwork::insert on a map that starts empty.       *)
(***************************************************************************)
\* The arguments of insert: three networks, so that a call leaves one aside.
InsertNetworkIds == {0, 1, 2}

InsertWithdrawals ==
    {NewWithdrawal(0, token.origin_network, token.origin_token_address, dest, 2, amount, <<>>) :
        token \in TokenInfos, dest \in InsertNetworkIds, amount \in Amounts}

InitInsertCalls ==
    /\ batches = <<>>
    /\ InitProof
    /\ InitInsert
    /\ InitCalls

\* BalanceTreeByNetwork::insert called on the map.
insert_call ==
    /\ calls < MaxInserts
    /\ \E origin_network \in InsertNetworkIds, withdrawal \in InsertWithdrawals :
          /\ ledger' = insert(ledger, origin_network, withdrawal)
          /\ last' = [origin_network |-> origin_network, withdrawal |-> withdrawal]
    /\ calls' = calls + 1
    /\ UNCHANGED <<proof_vars, call_vars>>

NextInsert == insert_call

SpecInsert == InitInsertCalls /\ [][NextInsert]_vars

(***************************************************************************)
(* Calls of BalanceTreeByNetwork::merge on three maps.                     *)
(***************************************************************************)
\* The ledgers of the maps: none, one without a token, and ledgers of one and
\* of two tokens.
MergeLedgers ==
    {BalanceTreeDefault,
     Token0 :> [deposit |-> 5, withdraw |-> 0],
     Token0 :> [deposit |-> 10, withdraw |-> 5],
     Token0 :> [deposit |-> 0, withdraw |-> 10],
     (Token0 :> [deposit |-> 5, withdraw |-> 0]) @@ (Token1 :> [deposit |-> 0, withdraw |-> 10])}

MergeMaps ==
    UNION {[networks -> MergeLedgers] : networks \in SUBSET NetworkIds}

InitMergeCalls ==
    /\ batches = <<>>
    /\ InitProof
    /\ InitInsert
    /\ merge_args \in [a : MergeMaps, b : MergeMaps, c : MergeMaps]
    /\ merge_ret = <<>>
    /\ hash_args = <<>>
    /\ hash_ret = <<>>

\* self.merge(&other) on what an earlier call left; a call that could not
\* return leaves nothing to call merge on.
merge_after(left, other) == IF left.overflow THEN left ELSE merge(left.tree, other)

\* a.merge(&b), b.merge(&a), a.merge(&b) then .merge(&c), and b.merge(&c) then
\* a.merge(&that), each on clones of the maps; other is borrowed, not written.
merge_call ==
    /\ merge_ret = <<>>
    /\ merge_args # <<>>
    /\ LET a == merge_args.a
           b == merge_args.b
           c == merge_args.c
       IN  merge_ret' = [ab |-> merge(a, b),
                         ba |-> merge(b, a),
                         ab_c |-> merge_after(merge(a, b), c),
                         a_bc |-> LET bc == merge(b, c)
                                  IN  IF bc.overflow THEN bc ELSE merge(a, bc.tree),
                         other |-> b]
    /\ UNCHANGED <<proof_vars, insert_vars, merge_args, hash_args, hash_ret>>

NextMerge == merge_call

SpecMerge == InitMergeCalls /\ [][NextMerge]_vars

(***************************************************************************)
(* Calls of Withdrawal::hash on two withdrawals.                           *)
(***************************************************************************)
\* Withdrawals with two or three values of every field; 258 is a value of
\* more than one byte, U256_MAX the largest amount.
LeafWithdrawals ==
    {NewWithdrawal(leaf_type, origin_network, origin_token_address, dest_network,
                   dest_address, amount, metadata) :
        leaf_type \in {0, 1}, origin_network \in {0, 258},
        origin_token_address \in {0, 258}, dest_network \in {1, 258},
        dest_address \in {0, 258}, amount \in {0, 5, U256_MAX},
        metadata \in {<<>>, <<0>>, <<7, 0>>}}

InitHashCalls ==
    /\ batches = <<>>
    /\ InitProof
    /\ InitInsert
    /\ merge_args = <<>>
    /\ merge_ret = <<>>
    /\ hash_args \in [first : LeafWithdrawals, second : LeafWithdrawals]
    /\ hash_ret = <<>>

\* first.hash() and second.hash()
hash_call ==
    /\ hash_ret = <<>>
    /\ hash_args # <<>>
    /\ hash_ret' = [first |-> WithdrawalHash(hash_args.first),
                    second |-> WithdrawalHash(hash_args.second)]
    /\ UNCHANGED <<proof_vars, insert_vars, merge_args, merge_ret, hash_args>>

NextHash == hash_call

SpecHash == InitHashCalls /\ [][NextHash]_vars

(***************************************************************************)
(* Claims about get_network_aggregate and generate_full_proof.             *)
(***************************************************************************)
\* The batches get_network_aggregate has gone past its root check for: those
\* it returned a pair for, and the one it is applying.
Applied(k) == k < i \/ (k = i /\ pc = "withdrawals")

\* The state in which generate_full_proof returned, and the kind of error.
Returned == pc = "done"

Failed(type) == Returned /\ result.kind = "Err" /\ result.error.type = type

\* C1: get_network_aggregate validates before it applies. A batch whose
\* computed root differs from its declared root ends the call with
\* InvalidLocalExitRoot{got = computed, expected = declared} while no leaf has
\* been appended and no ledger entry changed (the locals of the function were
\* never filled); and every batch that got past the check, so every batch a
\* pair was returned for, has its computed root equal to its declared root.
C1_ValidatesBeforeApplying ==
    /\ \A k \in 1..Len(batches) : Applied(k) => ~root_mismatch(batches[k])
    /\ Failed("InvalidLocalExitRoot") =>
          /\ i \in 1..Len(batches)
          /\ root_mismatch(batches[i])
          /\ result.error.got = get_root(batches[i].prev_local_exit_tree)
          /\ result.error.expected = batches[i].prev_local_exit_root
          /\ new_local_exit_tree = LocalExitTreeNew
          /\ aggregate = BalanceTreeByNetworkNew
          /\ result = Err(get_network_aggregate(batches[i]).error)
    /\ (pc \in {"merge", "panic"} \/ (Returned /\ ~Failed("InvalidLocalExitRoot"))) =>
          \A k \in 1..Len(batches) : ~root_mismatch(batches[k])

\* A second batch with withdrawals is rejected for its root after a first one
\* was applied.
C1_Witness ==
    /\ Failed("InvalidLocalExitRoot")
    /\ i = 2
    /\ batches[2].withdrawals # <<>>
    /\ batches[1].withdrawals # <<>>
    /\ DOMAIN aggregates # {}

\* A ledger with a token of which more was withdrawn than deposited.
InDebt(bt) == \E token \in DOMAIN bt : bt[token].withdraw > bt[token].deposit

AllRootsValid == \A k \in 1..Len(batches) : ~root_mismatch(batches[k])

\* C2: solvency. When every root is valid, generate_full_proof returns Ok only
\* if no network of the collated ledger has a token with total_withdrawn >
\* total_deposited, and returns NotEnoughBalance as soon as one network has;
\* every network of a successful checkpoint is a network out of debt.
C2_Solvency ==
    (Returned /\ AllRootsValid) =>
        /\ result.kind = "Ok" =>
              /\ \A network \in DOMAIN collated : ~InDebt(collated[network])
              /\ DOMAIN result.roots \subseteq DOMAIN collated
        /\ (\E network \in DOMAIN collated : InDebt(collated[network])) =>
              Failed("NotEnoughBalance")

\* A checkpoint of two batches with withdrawals that leaves nobody in debt.
C2_Witness ==
    /\ Returned
    /\ result.kind = "Ok"
    /\ Len(batches) = 2
    /\ \A k \in 1..2 : batches[k].withdrawals # <<>>
    /\ \E network \in DOMAIN collated : \E token \in DOMAIN collated[network] :
          collated[network][token].withdraw > 0

\* C3: all or nothing. A call that fails returns an error and no exit root or
\* balance root of any network, the solvent ones and those of the batches
\* already applied included; and the batches of the caller are never written.
C3_AllOrNothing ==
    /\ [](Returned /\ result.kind = "Err" =>
            /\ result.roots = NoRoots
            /\ result.error.type \in {"InvalidLocalExitRoot", "NotEnoughBalance"})
    /\ [][batches' = batches]_vars

\* A call that fails for a debtor after two batches were applied, with a
\* solvent network in the collated ledger.
C3_Witness ==
    /\ Failed("NotEnoughBalance")
    /\ Cardinality(DOMAIN aggregates) = 2
    /\ \E network \in DOMAIN collated : ~InDebt(collated[network])

\* C7: the debtors of NotEnoughBalance are exactly the networks whose collated
\* ledger has debt, each once, in strictly ascending order of NetworkId, in
\* every order of the batches and every order of the merges.
C7_DebtorsAscending ==
    Failed("NotEnoughBalance") =>
        LET debtors == result.error.debtors
        IN  /\ {debtors[k] : k \in 1..Len(debtors)} =
                  {network \in DOMAIN collated : InDebt(collated[network])}
            /\ \A k \in 1..(Len(debtors) - 1) : debtors[k] < debtors[k + 1]

\* Two debtors, their batches given in descending order of NetworkId.
C7_Witness ==
    /\ Failed("NotEnoughBalance")
    /\ Len(result.error.debtors) = 2
    /\ Len(batches) = 2
    /\ batches[1].origin_network > batches[2].origin_network

\* The networks that are the origin of a batch of the input.
OriginNetworks == {batches[k].origin_network : k \in 1..Len(batches)}

\* The first batch of a network, in the order of the input.
FirstBatchOf(network) ==
    batches[CHOOSE k \in 1..Len(batches) :
               /\ batches[k].origin_network = network
               /\ \A l \in 1..(k - 1) : batches[l].origin_network # network]

RECURSIVE WithdrawalsUpTo(_, _)
\* The withdrawals of the first k batches that a network is the origin of, in
\* the order of the input.
WithdrawalsUpTo(network, k) ==
    IF k = 0 THEN <<>>
    ELSE WithdrawalsUpTo(network, k - 1) \o
         (IF batches[k].origin_network = network THEN batches[k].withdrawals ELSE <<>>)

WithdrawalsOf(network) == WithdrawalsUpTo(network, Len(batches))

RECURSIVE WithLeaves(_, _)
\* A tree after the leaves of the withdrawals are appended in order.
WithLeaves(tree, withdrawals) ==
    IF withdrawals = <<>> THEN tree
    ELSE WithLeaves(Append(tree, WithdrawalHash(Head(withdrawals))), Tail(withdrawals))

\* C4: the certificates of one origin network are applied in the order given
\* and all of them count. On success the exit root of a network is the root of
\* the tree its first batch started from with the leaves of every withdrawal of
\* every one of its batches appended in order, and its ledger counts each of
\* those withdrawals.
C4_SameNetworkInOrder ==
    (Returned /\ result.kind = "Ok") =>
        \A network \in OriginNetworks :
            /\ network \in DOMAIN result.roots
            /\ result.roots[network].exit_root =
                  get_root(WithLeaves(FirstBatchOf(network).prev_local_exit_tree,
                                      WithdrawalsOf(network)))
            /\ \A k \in 1..Len(WithdrawalsOf(network)) :
                  LET withdrawal == WithdrawalsOf(network)[k]
                  IN  /\ withdrawal.token_info \in DOMAIN collated[network]
                      /\ collated[network][withdrawal.token_info].withdraw >=
                            withdrawal.amount

\* A total of a token in the ledger of a network, 0 where there is no entry.
TotalOf(tree, network, token, side) ==
    IF network \in DOMAIN tree /\ token \in DOMAIN tree[network]
    THEN tree[network][token][side] ELSE 0

\* What insert(origin_network, withdrawal) is to do to a map.
DualEffect(before, after, origin_network, withdrawal) ==
    /\ DOMAIN after = DOMAIN before \cup {origin_network, withdrawal.dest_network}
    /\ \A network \in DOMAIN after :
          DOMAIN after[network] \subseteq
              (IF network \in DOMAIN before THEN DOMAIN before[network] ELSE {})
              \cup {withdrawal.token_info}
    /\ \A network \in DOMAIN after, token \in TokenInfos :
          /\ TotalOf(after, network, token, "withdraw") =
                TotalOf(before, network, token, "withdraw") +
                (IF network = origin_network /\ token = withdrawal.token_info
                 THEN withdrawal.amount ELSE 0)
          /\ TotalOf(after, network, token, "deposit") =
                TotalOf(before, network, token, "deposit") +
                (IF network = withdrawal.dest_network /\ token = withdrawal.token_info
                 THEN withdrawal.amount ELSE 0)

\* C5: insert(origin_network, w) has exactly a dual effect. total_withdrawn of
\* w.token_info grows by w.amount in the ledger of origin_network and
\* total_deposited of w.token_info grows by w.amount in the ledger of
\* w.dest_network, a missing ledger being created first; every other network,
\* token and total stays as it was; with origin_network = w.dest_network both
\* land in the same ledger.
C5_InsertDualEffect ==
    [][calls' = calls + 1 =>
          DualEffect(ledger, ledger', last'.origin_network, last'.withdrawal)]_vars

\* The scenario of C6: every root is valid, network a is the origin of one
\* batch, which starts with nothing of the token deposited and withdraws 10 of
\* it to network b; in the collated ledger a has 0 of the token deposited and
\* b has 0 of it withdrawn.
PooledScenario(a, b, token) ==
    /\ Returned
    /\ AllRootsValid
    /\ a # b
    /\ Cardinality({k \in 1..Len(batches) : batches[k].origin_network = a}) = 1
    /\ BalanceOf(FirstBatchOf(a).prev_local_balance_tree, token).deposit = 0
    /\ \E k \in 1..Len(FirstBatchOf(a).withdrawals) :
          LET withdrawal == FirstBatchOf(a).withdrawals[k]
          IN  /\ withdrawal.token_info = token
              /\ withdrawal.dest_network = b
              /\ withdrawal.amount = 10
    /\ TotalOf(collated, a, token, "deposit") = 0
    /\ TotalOf(collated, b, token, "withdraw") = 0

\* C6 as stated: in the scenario no network is a debtor after the merge and
\* generate_full_proof succeeds.
C6_PooledCheckSucceeds ==
    \A a \in NetworkIds, b \in NetworkIds, token \in TokenInfos :
        PooledScenario(a, b, token) =>
            /\ debtors_of(collated) = <<>>
            /\ result.kind = "Ok"

\* C6 as amended: the aggregates are merged network by network, never pooled
\* across networks, so in the scenario network a is a debtor of the collated
\* ledger (10 withdrawn against 0 deposited) and generate_full_proof fails with
\* NotEnoughBalance, a among the debtors.
C6_OriginStaysDebtor ==
    \A a \in NetworkIds, b \in NetworkIds, token \in TokenInfos :
        PooledScenario(a, b, token) =>
            /\ InDebt(collated[a])
            /\ TotalOf(collated, b, token, "deposit") >= 10
            /\ Failed("NotEnoughBalance")
            /\ \E k \in 1..Len(result.error.debtors) : result.error.debtors[k] = a

\* The scenario with a the only debtor.
C6_Witness ==
    \E a \in NetworkIds, b \in NetworkIds, token \in TokenInfos :
        /\ PooledScenario(a, b, token)
        /\ result.error.debtors = <<a>>
        /\ ~InDebt(collated[b])

\* The batches in another order.
OrdersOf(n) == Permutations(1..n)

Permuted(bs, perm) == [k \in 1..Len(bs) |-> bs[perm[k]]]

\* An order that keeps the batches of each origin network in the order they
\* have in the input.
KeepsNetworkOrder(perm) ==
    \A k, l \in 1..Len(batches) :
        (k < l /\ batches[perm[k]].origin_network = batches[perm[l]].origin_network)
            => perm[k] < perm[l]

\* C8 as stated: every permutation of the batches gives the same outcome, the
\* same roots on success and the same error on failure.
C8_OrderIndependent ==
    pc \in {"done", "panic"} =>
        \A perm \in OrdersOf(Len(batches)) :
            generate_full_proof(Permuted(batches, perm)) = result

\* C8 as amended: an order of the batches that keeps the relative order of
\* the batches of each origin network gives the same outcome when every root
\* is valid (the same roots, or the same NotEnoughBalance), and fails with an
\* InvalidLocalExitRoot, like the call itself, when a root is not (each call
\* reports the first mismatch of its own order); and the merges of the
\* aggregates give the same collated ledger in whatever order they are made.
C8_OrderIndependentAcrossNetworks ==
    /\ pc \in {"done", "panic"} =>
          \A perm \in OrdersOf(Len(batches)) :
              KeepsNetworkOrder(perm) =>
                  LET other == generate_full_proof(Permuted(batches, perm))
                  IN  IF AllRootsValid THEN other = result
                      ELSE /\ Failed("InvalidLocalExitRoot")
                           /\ other.kind = "Err"
                           /\ other.error.type = "InvalidLocalExitRoot"
    /\ ((pc = "merge" /\ pending = {}) \/ (Returned /\ AllRootsValid)) =>
          collated = merge_balance_trees(aggregates, Ascending(DOMAIN aggregates)).tree

\* A checkpoint of three batches of two networks, the batches of one network
\* around the batch of the other, with a withdrawal between the networks.
C8_Witness ==
    /\ Returned
    /\ result.kind = "Ok"
    /\ Len(batches) = 3
    /\ batches[1].origin_network = batches[3].origin_network
    /\ batches[1].origin_network # batches[2].origin_network
    /\ \E k \in 1..3 :
          /\ batches[k].withdrawals # <<>>
          /\ batches[k].withdrawals[1].dest_network # batches[k].origin_network

RECURSIVE OverflowsIn(_, _, _)
\* Whether a ledger call of insert reports an arithmetic overflow while the
\* withdrawals are applied to the map.
OverflowsIn(tree, origin_network, withdrawals) ==
    IF withdrawals = <<>> THEN FALSE
    ELSE LET withdrawal == Head(withdrawals)
             s0 == or_default(tree, origin_network)
             withdrawn == BalanceTreeWithdraw(s0[origin_network], withdrawal.token_info,
                                              withdrawal.amount)
             s1 == [s0 EXCEPT ![origin_network] = withdrawn.tree]
             s2 == or_default(s1, withdrawal.dest_network)
             deposited == BalanceTreeDeposit(s2[withdrawal.dest_network],
                                             withdrawal.token_info, withdrawal.amount)
         IN  \/ withdrawn.overflow
             \/ deposited.overflow
             \/ OverflowsIn(insert(tree, origin_network, withdrawal), origin_network,
                            Tail(withdrawals))

\* C9: an overflow fails, it never wraps or saturates. A batch with a
\* withdrawal that takes a total out of the range has no (exit root, aggregate)
\* pair returned for it by get_network_aggregate, and generate_full_proof
\* does not return Ok.
C9_OverflowAborts ==
    \A k \in 1..Len(batches) :
        (~root_mismatch(batches[k])
         /\ OverflowsIn(aggregate_base(batches[k]).aggregate, batches[k].origin_network,
                        batches[k].withdrawals)) =>
            /\ ~(k < i)
            /\ ~(Returned /\ result.kind = "Ok")

\* The destination networks of the withdrawals of the input.
DestNetworks ==
    UNION {{batches[k].withdrawals[l].dest_network :
               l \in 1..Len(batches[k].withdrawals)} : k \in 1..Len(batches)}

\* C10: on success the checkpoint has one entry for every network of the
\* collated ledger, that is every origin network of a batch and every
\* destination network of a withdrawal; the exit root of a network with a
\* batch is the root of the batch's prev_local_exit_tree with the leaf of each
\* of its withdrawals appended in order, and the balance root of a network is
\* the hash of its merged ledger.
C10_CheckpointContents ==
    (Returned /\ result.kind = "Ok") =>
        /\ DOMAIN result.roots = DOMAIN collated
        /\ DOMAIN collated = OriginNetworks \cup DestNetworks
        /\ \A k \in 1..Len(batches) :
              result.roots[batches[k].origin_network].exit_root =
                  get_root(WithLeaves(batches[k].prev_local_exit_tree,
                                      batches[k].withdrawals))
        /\ \A network \in DOMAIN result.roots :
              result.roots[network].balance_root = BalanceTreeHash(collated[network])

\* The content of merging two maps: the union of the networks; the point-wise
\* sums, per token, for a network of both; the ledger as it is for a network
\* of one.
MergedContent(tree, a, b) ==
    /\ DOMAIN tree = DOMAIN a \cup DOMAIN b
    /\ \A network \in DOMAIN tree :
          IF network \in DOMAIN a /\ network \in DOMAIN b
          THEN /\ DOMAIN tree[network] = DOMAIN a[network] \cup DOMAIN b[network]
               /\ \A token \in DOMAIN tree[network] :
                     /\ tree[network][token].deposit =
                           TotalOf(a, network, token, "deposit") +
                           TotalOf(b, network, token, "deposit")
                     /\ tree[network][token].withdraw =
                           TotalOf(a, network, token, "withdraw") +
                           TotalOf(b, network, token, "withdraw")
          ELSE IF network \in DOMAIN a THEN tree[network] = a[network]
          ELSE tree[network] = b[network]

\* C11: BalanceTreeByNetwork::merge is commutative and associative as ledger
\* content. merge(a, b) and merge(b, a), and merge(merge(a, b), c) and
\* merge(a, merge(b, c)), end the same way: the same map, or both with a sum
\* out of the range; the map has the union of the networks, the point-wise
\* sums for a network of both and the ledger unchanged for a network of one;
\* other is as it was.
C11_MergeCommutativeAssociative ==
    merge_ret # <<>> =>
        /\ merge_ret.ab.overflow = merge_ret.ba.overflow
        /\ ~merge_ret.ab.overflow =>
              /\ merge_ret.ab.tree = merge_ret.ba.tree
              /\ MergedContent(merge_ret.ab.tree, merge_args.a, merge_args.b)
        /\ merge_ret.ab_c.overflow = merge_ret.a_bc.overflow
        /\ ~merge_ret.ab_c.overflow => merge_ret.ab_c.tree = merge_ret.a_bc.tree
        /\ merge_ret.other = merge_args.b

\* Three maps, none empty and no two equal, with a network in two of them
\* holding different tokens and a network in one of them only, merged within
\* the range.
C11_Witness ==
    /\ merge_ret # <<>>
    /\ ~merge_ret.ab_c.overflow
    /\ merge_args.a # merge_args.b
    /\ merge_args.b # merge_args.c
    /\ DOMAIN merge_args.a = {0, 1}
    /\ DOMAIN merge_args.b = {0}
    /\ DOMAIN merge_args.c = {1}
    /\ DOMAIN merge_args.a[0] = {Token0, Token1}
    /\ merge_args.b[0] = (Token0 :> [deposit |-> 5, withdraw |-> 0])
    /\ merge_args.c[1] # BalanceTreeDefault
    /\ merge_ret.ab.tree[0][Token0].deposit = 10

\* The batch being applied cut at the withdrawal the loop is at: a first batch
\* with the withdrawals already applied, and a second batch with the rest,
\* whose prev state is what the first one left (its tree, the root of that
\* tree, and the ledger of the origin network).
FirstPart ==
    [batches[i] EXCEPT !.withdrawals = SubSeq(@, 1, j - 1)]

SecondPart ==
    [origin_network |-> batches[i].origin_network,
     prev_local_exit_tree |-> new_local_exit_tree,
     prev_local_exit_root |-> get_root(new_local_exit_tree),
     prev_local_balance_tree |-> aggregate[batches[i].origin_network],
     withdrawals |-> SubSeq(batches[i].withdrawals, j, Len(batches[i].withdrawals))]

\* The rest of the withdrawals applied by a network that starts from nothing.
SecondPartAlone ==
    [SecondPart EXCEPT !.prev_local_exit_tree = LocalExitTreeNew,
                       !.prev_local_exit_root = get_root(LocalExitTreeNew),
                       !.prev_local_balance_tree = BalanceTreeDefault]

\* The locals of the loop are what get_network_aggregate returns for the
\* first part.
FirstPartApplied ==
    /\ pc = "withdrawals"
    /\ LET first == get_network_aggregate(FirstPart)
       IN  /\ first.kind = "Ok"
           /\ first.exit_root = get_root(new_local_exit_tree)
           /\ first.aggregate = aggregate

\* C12 as stated: a batch of W1 followed by a batch of W2 on the state the
\* first one left gives the exit root and the whole ledger aggregate of the
\* single batch of W1 followed by W2.
C12_RootAndAggregateContinuity ==
    pc = "withdrawals" =>
        LET second == get_network_aggregate(SecondPart)
            whole == get_network_aggregate(batches[i])
        IN  /\ FirstPartApplied
            /\ second.exit_root = whole.exit_root
            /\ second.aggregate = whole.aggregate

\* C12 as amended: the second batch gives the exit root of the single batch
\* and the same ledger of the origin network; of the other networks its
\* aggregate holds the deposits of W2 only, those of W1 being in the aggregate
\* of the first batch.
C12_RootContinuity ==
    pc = "withdrawals" =>
        LET second == get_network_aggregate(SecondPart)
            whole == get_network_aggregate(batches[i])
            alone == get_network_aggregate(SecondPartAlone)
            origin == batches[i].origin_network
        IN  /\ FirstPartApplied
            /\ second.kind = "Ok" /\ whole.kind = "Ok"
            /\ second.exit_root = whole.exit_root
            /\ second.aggregate[origin] = whole.aggregate[origin]
            /\ DOMAIN second.aggregate \subseteq DOMAIN whole.aggregate
            /\ \A network \in DOMAIN second.aggregate \ {origin} :
                  second.aggregate[network] = alone.aggregate[network]

\* A network with a prior leaf and ledger, cut between a withdrawal to another
\* network and a further withdrawal.
C12_Witness ==
    /\ pc = "withdrawals"
    /\ j = 2
    /\ Len(batches[i].withdrawals) >= 2
    /\ batches[i].prev_local_exit_tree # LocalExitTreeNew
    /\ batches[i].prev_local_balance_tree # BalanceTreeDefault
    /\ batches[i].withdrawals[1].dest_network # batches[i].origin_network

\* A token of a network's ledger with more withdrawn than deposited.
TokenInDebt(tree, network, token) ==
    TotalOf(tree, network, token, "withdraw") > TotalOf(tree, network, token, "deposit")

\* The ledger of a network holds the one token, with these totals.
OnlyToken(tree, network, token, deposited, withdrawn) ==
    /\ network \in DOMAIN tree
    /\ tree[network] = (token :> [deposit |-> deposited, withdraw |-> withdrawn])

\* C13: the debt predicate over a sequence of ledger operations. The debtors
\* the solvency check finds are the networks with a token of which strictly
\* more was withdrawn than deposited (equal totals are no debt); a call that
\* does not deposit a token in a network leaves that token in debt if it was;
\* a ledger with only a deposit of a token has debt after a withdrawal of
\* more than that, and has none after a following deposit of the difference
\* (100, 150 and 50 in the range of the source).
C13_DebtPredicate ==
    /\ [](LET debtors == debtors_of(ledger)
          IN  /\ {debtors[k] : k \in 1..Len(debtors)} =
                    {network \in DOMAIN ledger :
                        \E token \in TokenInfos : TokenInDebt(ledger, network, token)}
              /\ \A network \in DOMAIN ledger :
                    has_debt(ledger[network]) <=>
                        \E token \in DOMAIN ledger[network] :
                            ledger[network][token].withdraw >
                                ledger[network][token].deposit)
    /\ [][calls' = calls + 1 =>
            LET origin == last'.origin_network
                w == last'.withdrawal
            IN  /\ \A network \in InsertNetworkIds, token \in TokenInfos :
                      (/\ TokenInDebt(ledger, network, token)
                       /\ ~(network = w.dest_network /\ token = w.token_info))
                          => TokenInDebt(ledger', network, token)
                /\ (/\ OnlyToken(ledger, origin, w.token_info,
                                  TotalOf(ledger, origin, w.token_info, "deposit"), 0)
                     /\ w.dest_network # origin
                     /\ w.amount > TotalOf(ledger, origin, w.token_info, "deposit"))
                        => has_debt(ledger'[origin])
                /\ LET deposited == TotalOf(ledger, w.dest_network, w.token_info, "deposit")
                       withdrawn == TotalOf(ledger, w.dest_network, w.token_info, "withdraw")
                   IN  (/\ OnlyToken(ledger, w.dest_network, w.token_info,
                                     deposited, withdrawn)
                        /\ withdrawn > deposited
                        /\ w.dest_network # origin
                        /\ deposited + w.amount >= withdrawn
                        /\ deposited + w.amount <= U256_MAX)
                           => ~has_debt(ledger'[w.dest_network])]_vars

\* A network that received 5 of a token, withdrew 10 of it and then received
\* 5 more: its totals are equal and it has no debt.
C13_Witness ==
    /\ calls = 3
    /\ last.withdrawal.dest_network = 1
    /\ last.origin_network # 1
    /\ last.withdrawal.amount = 5
    /\ OnlyToken(ledger, 1, last.withdrawal.token_info, 10, 10)
    /\ ~has_debt(ledger[1])

RECURSIVE be_value(_, _)
\* The number a slice of bytes is the big-endian writing of, read from the
\* high-order byte on.
be_value(bytes, high) ==
    IF bytes = <<>> THEN high ELSE be_value(Tail(bytes), 256 * high + Head(bytes))

\* The pre-image of a leaf: 113 bytes, the fields at their offsets.
LeafLayout(w, digest) ==
    LET pre == digest.pre
    IN  /\ digest.kind = "keccak"
        /\ Len(pre) = 113
        /\ \A k \in 1..81 : pre[k] \in 0..255
        /\ pre[1] = w.leaf_type
        /\ be_value(SubSeq(pre, 2, 5), 0) = w.token_info.origin_network
        /\ be_value(SubSeq(pre, 6, 25), 0) = w.token_info.origin_token_address
        /\ be_value(SubSeq(pre, 26, 29), 0) = w.dest_network
        /\ be_value(SubSeq(pre, 30, 49), 0) = w.dest_address
        /\ be_value(SubSeq(pre, 50, 81), 0) = w.amount
        /\ SubSeq(pre, 82, 113) = DigestBytes(keccak256(w.metadata))

\* C14: the leaf encoding. Withdrawal::hash is the digest of one
\* concatenation of 113 bytes: leaf_type (1), origin_network (4, big-endian),
\* origin_token_address (20), dest_network (4, big-endian), dest_address (20),
\* amount (32, big-endian, zero-filled on the left) and the digest of the
\* metadata (32), in that order, for every amount and metadata length; equal
\* withdrawals give equal digests and different withdrawals different
\* pre-images.
C14_LeafEncoding ==
    hash_ret # <<>> =>
        /\ LeafLayout(hash_args.first, hash_ret.first)
        /\ LeafLayout(hash_args.second, hash_ret.second)
        /\ hash_args.first = hash_args.second => hash_ret.first = hash_ret.second
        /\ hash_args.first # hash_args.second =>
              hash_ret.first.pre # hash_ret.second.pre

\* Two withdrawals that differ in the metadata only, the amount the largest
\* of the range and two fields of more than one byte.
C14_Witness ==
    /\ hash_ret # <<>>
    /\ hash_args.first.metadata = <<>>
    /\ hash_args.second = [hash_args.first EXCEPT !.metadata = <<0>>]
    /\ hash_args.first.amount = U256_MAX
    /\ hash_args.first.dest_network = 258
    /\ hash_args.first.dest_address = 258
    /\ hash_ret.first # hash_ret.second

RECURSIVE SumOverNetworks(_, _, _, _)
\* The sum of a total of a token over the given networks of a map.
SumOverNetworks(tree, networks, token, side) ==
    IF networks = {} THEN 0
    ELSE LET network == CHOOSE n \in networks : TRUE
         IN  TotalOf(tree, network, token, side) +
             SumOverNetworks(tree, networks \ {network}, token, side)

\* Per token, as much withdrawn as deposited over the networks of a map.
Balanced(tree) ==
    \A token \in TokenInfos :
        SumOverNetworks(tree, DOMAIN tree, token, "withdraw") =
            SumOverNetworks(tree, DOMAIN tree, token, "deposit")

\* A batch that starts from a ledger without totals and whose withdrawals
\* take no total out of the range.
FromNothing(batch) ==
    /\ batch.prev_local_balance_tree = BalanceTreeDefault
    /\ ~OverflowsIn(aggregate_base(batch).aggregate, batch.origin_network,
                    batch.withdrawals)

\* C15: conservation. After any number of calls of insert on a map without
\* totals, and without overflow, each token has as much withdrawn as
\* deposited over the networks (the aggregate of a batch whose prior ledger is
\* empty, after each turn of the loop); hence, for batches whose prior ledgers
\* are empty, the ledger collated by generate_full_proof is balanced per token.
C15_Conservation ==
    /\ (pc = "withdrawals" /\ FromNothing(batches[i])) => Balanced(aggregate)
    /\ (pc \in {"merge", "done"} /\ \A k \in 1..Len(batches) : FromNothing(batches[k]))
          => Balanced(collated)

\* Two batches from empty ledgers, each with a withdrawal, collated into the
\* ledgers of two networks.
C15_Witness ==
    /\ Returned
    /\ Len(batches) = 2
    /\ \A k \in 1..2 : FromNothing(batches[k]) /\ batches[k].withdrawals # <<>>
    /\ batches[1].withdrawals[1].dest_network # batches[1].origin_network
    /\ Cardinality(DOMAIN collated) = 2
    /\ \E token \in TokenInfos :
          SumOverNetworks(collated, DOMAIN collated, token, "withdraw") >= 10

\* The batches of the input whose computed root differs from the declared one.
Mismatching == {k \in 1..Len(batches) : root_mismatch(batches[k])}

FirstMismatching == CHOOSE k \in Mismatching : \A l \in Mismatching : k <= l

\* C16: a root mismatch is fail-fast and comes before insolvency. When a batch
\* of the input has a root mismatch, no batch after the first such batch is
\* evaluated, nothing is merged, and generate_full_proof returns the
\* InvalidLocalExitRoot of that first batch, never NotEnoughBalance, also when
\* a network is in debt.
C16_RootMismatchFailFast ==
    Mismatching # {} =>
        /\ i <= FirstMismatching
        /\ \A k \in 1..Len(batches) : Applied(k) => k < FirstMismatching
        /\ pc \in {"batch", "withdrawals", "done"}
        /\ collated = BalanceTreeByNetworkNew
        /\ Returned =>
              /\ i = FirstMismatching
              /\ result = Err(InvalidLocalExitRoot(
                                 computed_root(batches[FirstMismatching]),
                                 batches[FirstMismatching].prev_local_exit_root))

\* A first batch that leaves its network in debt, a second and a third batch
\* whose roots mismatch with different roots: the error is the second one's.
C16_Witness ==
    /\ Returned
    /\ Mismatching = {2, 3}
    /\ i = 2
    /\ computed_root(batches[2]) # computed_root(batches[3])
    /\ batches[1].origin_network \in DOMAIN aggregates
    /\ has_debt(aggregates[batches[1].origin_network].aggregate[batches[1].origin_network])
    /\ result.error.got = computed_root(batches[2])

RECURSIVE ReceivedFrom(_, _, _)
\* The amount of a token the withdrawals of a sequence send to a network.
ReceivedFrom(withdrawals, network, token) ==
    IF withdrawals = <<>> THEN 0
    ELSE (IF Head(withdrawals).dest_network = network /\ Head(withdrawals).token_info = token
          THEN Head(withdrawals).amount ELSE 0)
         + ReceivedFrom(Tail(withdrawals), network, token)

RECURSIVE AllWithdrawalsUpTo(_)
\* The withdrawals of the first k batches of the input.
AllWithdrawalsUpTo(k) ==
    IF k = 0 THEN <<>> ELSE AllWithdrawalsUpTo(k - 1) \o batches[k].withdrawals

\* The ledger of a network that only received: per token received, the sum
\* of the amounts deposited and nothing withdrawn.
ReceivedOnly(network) ==
    LET all == AllWithdrawalsUpTo(Len(batches))
        tokens == {token \in TokenInfos :
                      \E k \in 1..Len(all) :
                          all[k].dest_network = network /\ all[k].token_info = token}
    IN  [token \in tokens |->
            [deposit |-> ReceivedFrom(all, network, token), withdraw |-> 0]]

\* C17: on success a network that is the destination of withdrawals and the
\* origin of no batch has an entry in the checkpoint; its balance root is the
\* hash of the ledger that holds the deposits it received and nothing else,
\* and its exit root is the all-zero default digest.
C17_DestinationOnlyNetwork ==
    (Returned /\ result.kind = "Ok") =>
        \A network \in DestNetworks \ OriginNetworks :
            /\ network \in DOMAIN result.roots
            /\ result.roots[network].exit_root = DigestDefault
            /\ result.roots[network].balance_root = BalanceTreeHash(ReceivedOnly(network))

====
